---- MODULE Spec2Model ----
(***************************************************************************)
(* Model of plat/xilinx/zynqmp/pm_service/pm_svc_main.c: the ZynqMP power  *)
(* management SMC dispatcher (pm_smc_handler), the IPI relay               *)
(* (ipi_fiq_handler) and the service setup (pm_setup).                     *)
(*                                                                         *)
(* Machine words.  TLC integers are 32-bit signed, so a C word is kept as  *)
(* a tuple of 16-bit limbs, least significant first: a uint32_t is         *)
(* <<l0, l1>> and a uint64_t is <<l0, l1, l2, l3>>.  Casts, shifts by 32   *)
(* and the bitwise operators act on the limbs at full width.               *)
(***************************************************************************)
EXTENDS Integers, Sequences, FiniteSets

(***************************************************************************)
(* Bounds of the model.                                                    *)
(***************************************************************************)
\* number of distinct payload blocks the coprocessor may deliver
NumBufs == 2
\* cap on the number of invocations of the delegate pm_get_api_version
MaxVerCalls == 2
\* cap on the number of times the relay preempts one PM_F_GETARGS call
MaxPreempts == 1

(***************************************************************************)
(* Program constants.                                                      *)
(***************************************************************************)
PM_F_INIT == 2561
PM_F_GETARGS == 2562

\* pm_defs.h, smcc.h, errno.h (not part of the file under src/)
PAYLOAD_ARG_CNT == 5
PM_VERSION == 2
FUNCID_NUM_MASK == 65535
PM_RET_SUCCESS == 0
PM_RET_ERROR_ARGS == 1
ENODEV == 19
EINVAL == 22
SMC_UNK == <<65535, 65535>>

\* enum pm_api_id
PM_GET_API_VERSION == 1
PM_SET_CONFIGURATION == 2
PM_GET_NODE_STATUS == 3
PM_GET_OP_CHARACTERISTIC == 4
PM_REGISTER_NOTIFIER == 5
PM_REQ_SUSPEND == 6
PM_SELF_SUSPEND == 7
PM_FORCE_POWERDOWN == 8
PM_ABORT_SUSPEND == 9
PM_REQ_WAKEUP == 10
PM_SET_WAKEUP_SOURCE == 11
PM_SYSTEM_SHUTDOWN == 12
PM_REQ_NODE == 13
PM_RELEASE_NODE == 14
PM_SET_REQUIREMENT == 15
PM_SET_MAX_LATENCY == 16
PM_RESET_ASSERT == 17
PM_RESET_GET_STATUS == 18
PM_MMIO_WRITE == 19
PM_MMIO_READ == 20

(***************************************************************************)
(* Word arithmetic on 16-bit limbs.                                        *)
(***************************************************************************)
\* the uint32_t with value n, 0 <= n < 2^31
U32(n) == <<n % 65536, n \div 65536>>

\* (uint64_t)w for a uint32_t w: zero extension
Zext64(w) == <<w[1], w[2], 0, 0>>

\* (uint32_t)x for a uint64_t x: truncation to the low half
Lo32(x) == <<x[1], x[2]>>

\* x >> 32 and x << 32 on a uint64_t
Shr32(x) == <<x[3], x[4], 0, 0>>
Shl32(x) == <<0, 0, x[1], x[2]>>

\* bitwise or / and of two limbs, bit by bit from the least significant
RECURSIVE BitOr(_, _)
BitOr(a, b) ==
    IF a = 0 THEN b
    ELSE IF b = 0 THEN a
    ELSE (IF a % 2 = 1 \/ b % 2 = 1 THEN 1 ELSE 0)
         + 2 * BitOr(a \div 2, b \div 2)

RECURSIVE BitAnd(_, _)
BitAnd(a, b) ==
    IF a = 0 \/ b = 0 THEN 0
    ELSE (IF a % 2 = 1 /\ b % 2 = 1 THEN 1 ELSE 0)
         + 2 * BitAnd(a \div 2, b \div 2)

\* a | b on uint64_t, a & b on uint32_t
Or64(a, b) == <<BitOr(a[1], b[1]), BitOr(a[2], b[2]),
                BitOr(a[3], b[3]), BitOr(a[4], b[4])>>
And32(a, b) == <<BitAnd(a[1], b[1]), BitAnd(a[2], b[2])>>

Zero32 == U32(0)
Zero64 == Zext64(Zero32)


(***************************************************************************)
(* Inputs.                                                                 *)
(***************************************************************************)
\* command ids a caller may put in the low bits of the function identifier:
\* the two bookkeeping ids, the enumerated PM API ids, and ids outside them
CmdIds == {PM_F_INIT, PM_F_GETARGS} \cup (1..20) \cup {0, 21, 2563}

\* function identifiers: the command id under the calling-convention bits
\* (0xC200xxxx: fast call, SMC64, SiP; 0x8200xxxx: fast call, SMC32, SiP)
FidSet == {<<id, 49664>> : id \in CmdIds} \cup {<<PM_F_INIT, 33280>>}

\* x1: 51, 0x1_0000_0034 (line 52 under a nonzero high half), 0xFFFFFFFF
X1Set == {<<51, 0, 0, 0>>, <<52, 0, 1, 0>>, <<65535, 65535, 0, 0>>}
\* x2: 0x0000_0009_0000_0007
X2Set == {<<7, 0, 9, 0>>}

\* the calls made: every function identifier; x1 ranges over X1Set for the
\* ids that register a line and is 0x1_0000_0034 for the others
CallSet ==
    {c \in [fid : FidSet, x1 : X1Set, x2 : X2Set] :
        c.fid[1] # PM_F_INIT => c.x1 = <<52, 0, 1, 0>>}

\* the k-th payload block of the coprocessor; Buf(1) is [1, 2, 3, 4, 5] and
\* no 32-bit word occurs in two blocks
Buf(k) == [i \in 1..PAYLOAD_ARG_CNT |->
             <<((k - 1) * 21845 + i) % 65536,
               ((k - 1) * (32768 + i)) % 65536>>]
BufSet == {Buf(k) : k \in 1..NumBufs}
ZeroBuf == [i \in 1..PAYLOAD_ARG_CNT |-> Zero32]

\* statuses a delegated operation may return, extra values it may report
RetStatusSet == {PM_RET_SUCCESS, PM_RET_ERROR_ARGS}
ExtraSet == {Zero32, <<4660, 43981>>}
\* versions the coprocessor firmware may implement: 0.2 (PM_VERSION), 1.0
VersionSet == {U32(PM_VERSION), <<0, 1>>}
\* values pm_ipi_init may return
IpiInitRetSet == {0, -EINVAL}

(***************************************************************************)
(* State.                                                                  *)
(***************************************************************************)
VARIABLES
    pm_down,      \* the gate: 0 - UP, !0 - DOWN
    pm_ctx,       \* [api_version, callback_irq, payload]
    setup,        \* pm_setup(): [called, status] with the value it returned,
                  \* [up] what zynqmp_is_pmu_up() answered, [ipi_ret] <<the
                  \* value pm_ipi_init returned>>, <<>> when it was not called
    ipi_handler,  \* handler registered with pm_ipi_init, or "none"
    pmu_version,  \* version implemented by the coprocessor firmware
    pc,           \* dispatcher: "idle", a line of PM_F_GETARGS, or "exit"
    smc_fid,      \* function identifier of the call in flight / returning
    svc_ret,      \* local svc_ret[3] of the PM_F_GETARGS case
    op,           \* the handler that ran last, "none" once its caller resumed
    ret,          \* words x0.. returned by the last handler, if an SMC
    delegated,    \* delegated operations invoked by the last handler
    gic,          \* interrupt-controller primitives invoked by the last handler
    relay_obs,    \* [payload, gic] after each statement of the relay, when
                  \* the relay is the last handler
    ver_calls,    \* number of invocations of pm_get_api_version so far
    regs,         \* <<x1, x2>> of the call in flight, <<>> when there is none
    pm_arg,       \* local pm_arg[4] of the call in flight, <<>> while unassigned
    \* history
    registered,   \* the last two line ids passed to PM_F_INIT (gate open)
    last_buf,     \* block delivered by the most recent coprocessor signal
    preempts,     \* times the relay ran during the PM_F_GETARGS call in flight
    overwrote,    \* the last signal overwrote a block no fetch had returned
    fetched,      \* results of the last two unpreempted fetches since the
                  \* most recent signal
    ver_seen,     \* <<version>> returned by the previous PM_GET_API_VERSION call
    ver_ok        \* some invocation of pm_get_api_version returned PM_RET_SUCCESS

vars == <<pm_down, pm_ctx, setup, ipi_handler, pmu_version, pc, smc_fid, svc_ret,
          op, ret, delegated, gic, relay_obs, ver_calls, regs, pm_arg,
          registered, last_buf, overwrote, preempts, fetched, ver_seen,
          ver_ok>>

hist == <<registered, last_buf, overwrote, preempts, fetched, ver_seen,
          ver_ok>>

\* the arguments of the call in flight
call == <<regs, pm_arg>>

NoFid == <<0, 0>>
NoSvcRet == <<Zero64, Zero64, Zero64>>

\* the service after construction, before pm_setup()
InitService ==
    /\ pm_down = 1
    /\ pm_ctx = [api_version |-> Zero32, callback_irq |-> Zero32,
                 payload |-> ZeroBuf]
    /\ setup = [called |-> FALSE, status |-> 0, up |-> FALSE, ipi_ret |-> <<>>]
    /\ ipi_handler = "none"
    /\ pmu_version \in VersionSet
    /\ pc = "idle"
    /\ smc_fid = NoFid
    /\ svc_ret = NoSvcRet
    /\ op = "none"
    /\ ret = <<>>
    /\ delegated = <<>>
    /\ gic = <<>>
    /\ relay_obs = <<>>
    /\ ver_calls = 0
    /\ registered = <<>>
    /\ last_buf = ZeroBuf
    /\ overwrote = FALSE
    /\ preempts = 0
    /\ fetched = <<>>
    /\ ver_seen = <<>>
    /\ ver_ok = FALSE

Init ==
    /\ InitService
    /\ regs = <<>>
    /\ pm_arg = <<>>

(***************************************************************************)
(* pm_setup()                                                              *)
(***************************************************************************)
\* up: zynqmp_is_pmu_up(); st: the value pm_ipi_init(ipi_fiq_handler) returns
\* mutant: pm_ipi_init is called without probing the coprocessor
PmSetupResult_noprobe(down, up, st) ==
    [ret |-> st, pm_down |-> st, handler |-> "ipi_fiq_handler"]

PmSetupResult(down, up, st) ==
    IF ~up
    THEN [ret |-> -ENODEV, pm_down |-> down, handler |-> "none"]
    ELSE [ret |-> st, pm_down |-> st, handler |-> "ipi_fiq_handler"]

pm_setup ==
    /\ ~setup.called
    /\ pc = "idle"
    /\ \E up \in BOOLEAN, st \in IpiInitRetSet :
         LET r == PmSetupResult(pm_down, up, st) IN
         /\ pm_down' = r.pm_down
         /\ ipi_handler' = r.handler
         /\ setup' = [called |-> TRUE, status |-> r.ret, up |-> up,
                      ipi_ret |-> IF r.handler = "none" THEN <<>> ELSE <<st>>]
    /\ op' = "pm_setup"
    /\ smc_fid' = NoFid
    /\ ret' = <<>>
    /\ delegated' = <<>>
    /\ gic' = <<>>
    /\ relay_obs' = <<>>
    /\ UNCHANGED <<pm_ctx, pmu_version, pc, svc_ret, ver_calls, call, hist>>

(***************************************************************************)
(* ipi_fiq_handler() and trigger_callback_irq()                            *)
(***************************************************************************)
trigger_callback_irq(irq_num) ==
    << <<"gicd_set_ispendr", irq_num>>, <<"gicd_set_isactiver", irq_num>> >>

\* mutant: a block is stored only into an empty buffer (first write wins)
IpiResult_keep(ctx, buf) ==
    [ctx |-> [ctx EXCEPT !.payload = IF ctx.payload = ZeroBuf THEN buf
                                     ELSE ctx.payload],
     gic |-> trigger_callback_irq(ctx.callback_irq)]

\* mutant: the relay forgets the line once it has raised the notification
IpiResult_unregister(ctx, buf) ==
    [ctx |-> [ctx EXCEPT !.payload = buf, !.callback_irq = Zero32],
     gic |-> trigger_callback_irq(ctx.callback_irq)]

\* memcpy(pm_ctx.payload, buf, sizeof(pm_ctx.payload)), then the notification
IpiResult(ctx, buf) ==
    [ctx |-> [ctx EXCEPT !.payload = buf],
     gic |-> trigger_callback_irq(ctx.callback_irq)]

\* mutant: the notification is raised before the block is copied
IpiStmts_raisefirst == <<"gicd_set_ispendr", "gicd_set_isactiver", "memcpy">>

\* the statements of the relay in program order: line 99, then lines 75 and
\* 76 of trigger_callback_irq called at line 100
IpiStmts == <<"memcpy", "gicd_set_ispendr", "gicd_set_isactiver">>

\* one statement of the relay on [payload, gic]
IpiStmt(stmt, ctx, obs, buf) ==
    IF stmt = "memcpy"
    THEN [obs EXCEPT !.payload = buf]
    ELSE [obs EXCEPT !.gic = Append(@, <<stmt, ctx.callback_irq>>)]

\* [payload, gic] after each of the first n statements
RECURSIVE IpiTrace(_, _, _)
IpiTrace(n, ctx, buf) ==
    IF n = 0 THEN <<>>
    ELSE LET before == IpiTrace(n - 1, ctx, buf)
             obs == IF n = 1 THEN [payload |-> ctx.payload, gic |-> <<>>]
                    ELSE before[n - 1]
         IN Append(before, IpiStmt(IpiStmts[n], ctx, obs, buf))

\* the relay runs to completion; it may preempt the dispatcher between two
\* statements of the PM_F_GETARGS case
ipi_fiq_handler(buf) ==
    /\ ipi_handler = "ipi_fiq_handler"
    /\ pc # "exit"
    /\ pc # "idle" => preempts < MaxPreempts
    /\ LET r == IpiResult(pm_ctx, buf) IN
         /\ pm_ctx' = r.ctx
         /\ gic' = r.gic
    /\ relay_obs' = IpiTrace(Len(IpiStmts), pm_ctx, buf)
    /\ op' = "ipi_fiq_handler"
    /\ ret' = <<>>
    /\ delegated' = <<>>
    /\ last_buf' = buf
    /\ overwrote' = (fetched = <<>> /\ last_buf # ZeroBuf /\ last_buf # buf)
    /\ preempts' = IF pc = "idle" THEN preempts ELSE preempts + 1
    /\ fetched' = <<>>
    /\ UNCHANGED <<pm_down, setup, ipi_handler, pmu_version, pc, smc_fid,
                   svc_ret, ver_calls, call, registered, ver_seen,
                   ver_ok>>

IpiSignal == \E buf \in BufSet : ipi_fiq_handler(buf)

(***************************************************************************)
(* pm_smc_handler()                                                        *)
(***************************************************************************)
\* mutant: the gate test written as pm_down > 0
GateDown_positive(down) == down > 0

\* if (pm_down)
GateDown(down) == down # 0

\* mutant: the command id taken from the low byte only
Cmd_byte(fid) == And32(fid, U32(255))

\* smc_fid & FUNCID_NUM_MASK
Cmd(fid) == And32(fid, U32(FUNCID_NUM_MASK))

\* mutant: the halves of each register taken high first
PmArg_swapped(x1, x2) ==
    <<Lo32(Shr32(x1)), Lo32(x1), Lo32(Shr32(x2)), Lo32(x2)>>

\* pm_arg[0..3]
PmArg(x1, x2) ==
    <<Lo32(x1), Lo32(Shr32(x1)), Lo32(x2), Lo32(Shr32(x2))>>

\* (uint64_t)status | ((uint64_t)extra << 32)
RetWord(status, extra) == Or64(Zext64(status), Shl32(Zext64(extra)))

\* SMC_RETn: what every return of the dispatcher leaves behind
SmcReturn(fid, words, calls, prims) ==
    /\ op' = "pm_smc_handler"
    /\ smc_fid' = fid
    /\ ret' = words
    /\ delegated' = calls
    /\ gic' = prims
    /\ relay_obs' = <<>>
    /\ pc' = "exit"
    /\ svc_ret' = NoSvcRet

\* gate closed: SMC_RET1(handle, SMC_UNK)
SmcDown(fid, x1, x2) ==
    /\ pc = "idle"
    /\ GateDown(pm_down)
    /\ SmcReturn(fid, <<Zext64(SMC_UNK)>>, <<>>, <<>>)
    /\ regs' = <<x1, x2>>
    /\ pm_arg' = <<>>
    /\ UNCHANGED <<pm_down, pm_ctx, setup, ipi_handler, pmu_version, ver_calls,
                   hist>>

\* the interrupt controller's view of a line id: ids from 1020 up are not
\* interrupt lines
GicdRejects(id) == id[2] # 0 \/ id[1] >= 1020

\* mutant: only the first registration is kept
InitResult_once(ctx, x1) ==
    [ctx |-> IF ctx.callback_irq = Zero32
             THEN [ctx EXCEPT !.callback_irq = Lo32(x1)]
             ELSE ctx,
     gic |-> << <<"gicd_set_isenabler", Lo32(x1)>> >>,
     ret |-> <<Zext64(U32(PM_RET_SUCCESS))>>]

\* mutant: the line id is kept in 16 bits
InitResult_u16(ctx, x1) ==
    [ctx |-> [ctx EXCEPT !.callback_irq = <<x1[1], 0>>],
     gic |-> << <<"gicd_set_isenabler", <<x1[1], 0>> >> >>,
     ret |-> <<Zext64(U32(PM_RET_SUCCESS))>>]

\* mutant: a line id the interrupt controller rejects is reported as an error
InitResult_checked(ctx, x1) ==
    IF GicdRejects(Lo32(x1))
    THEN [ctx |-> ctx, gic |-> <<>>, ret |-> <<Zext64(U32(PM_RET_ERROR_ARGS))>>]
    ELSE [ctx |-> [ctx EXCEPT !.callback_irq = Lo32(x1)],
          gic |-> << <<"gicd_set_isenabler", Lo32(x1)>> >>,
          ret |-> <<Zext64(U32(PM_RET_SUCCESS))>>]

\* case PM_F_INIT
InitResult(ctx, x1) ==
    [ctx |-> [ctx EXCEPT !.callback_irq = Lo32(x1)],
     gic |-> << <<"gicd_set_isenabler", Lo32(x1)>> >>,
     ret |-> <<Zext64(U32(PM_RET_SUCCESS))>>]

SmcInit(fid, x1, x2) ==
    /\ pc = "idle"
    /\ ~GateDown(pm_down)
    /\ Cmd(fid) = U32(PM_F_INIT)
    /\ LET r == InitResult(pm_ctx, x1) IN
         /\ pm_ctx' = r.ctx
         /\ SmcReturn(fid, r.ret, <<>>, r.gic)
    /\ registered' = IF registered = <<>>
                     THEN << <<x1[1], x1[2]>> >>
                     ELSE <<registered[Len(registered)], <<x1[1], x1[2]>> >>
    /\ regs' = <<x1, x2>>
    /\ pm_arg' = PmArg(x1, x2)
    /\ UNCHANGED <<pm_down, setup, ipi_handler, pmu_version, ver_calls,
                   last_buf, overwrote, preempts, fetched, ver_seen,
                   ver_ok>>

\* case PM_F_GETARGS: one step per statement of lines 191-195, then line 206
GetArgsLines == <<"L191", "L192", "L193", "L194", "L195", "L206">>

GetArgsNext(line) ==
    LET k == CHOOSE i \in 1..5 : GetArgsLines[i] = line IN GetArgsLines[k + 1]

\* mutant: line 192 without the shift
GetArgsStmt_noshift(line, sr, payload) ==
    CASE line = "L191" -> [sr EXCEPT ![1] = Zext64(payload[1])]
      [] line = "L192" -> [sr EXCEPT ![1] = Or64(sr[1], Zext64(payload[2]))]
      [] line = "L193" -> [sr EXCEPT ![2] = Zext64(payload[3])]
      [] line = "L194" -> [sr EXCEPT ![2] = Or64(sr[2], Shl32(Zext64(payload[4])))]
      [] line = "L195" -> [sr EXCEPT ![3] = Zext64(payload[5])]

GetArgsStmt(line, sr, payload) ==
    CASE line = "L191" -> [sr EXCEPT ![1] = Zext64(payload[1])]
      [] line = "L192" -> [sr EXCEPT ![1] = Or64(sr[1], Shl32(Zext64(payload[2])))]
      [] line = "L193" -> [sr EXCEPT ![2] = Zext64(payload[3])]
      [] line = "L194" -> [sr EXCEPT ![2] = Or64(sr[2], Shl32(Zext64(payload[4])))]
      [] line = "L195" -> [sr EXCEPT ![3] = Zext64(payload[5])]

\* entry: the gate check and the switch
SmcGetArgs(fid, x1, x2) ==
    /\ pc = "idle"
    /\ ~GateDown(pm_down)
    /\ Cmd(fid) = U32(PM_F_GETARGS)
    /\ pc' = "L191"
    /\ smc_fid' = fid
    /\ svc_ret' = NoSvcRet
    /\ preempts' = 0
    /\ op' = "none"
    /\ ret' = <<>>
    /\ delegated' = <<>>
    /\ gic' = <<>>
    /\ relay_obs' = <<>>
    /\ regs' = <<x1, x2>>
    /\ pm_arg' = PmArg(x1, x2)
    /\ UNCHANGED <<pm_down, pm_ctx, setup, ipi_handler, pmu_version, ver_calls,
                   registered, last_buf, overwrote, fetched, ver_seen,
                   ver_ok>>

GetArgsRead ==
    /\ pc \in {"L191", "L192", "L193", "L194", "L195"}
    /\ svc_ret' = GetArgsStmt(pc, svc_ret, pm_ctx.payload)
    /\ pc' = GetArgsNext(pc)
    /\ UNCHANGED <<pm_down, pm_ctx, setup, ipi_handler, pmu_version, smc_fid,
                   op, ret, delegated, gic, relay_obs, ver_calls, call, hist>>

\* mutant: the fetch clears the buffer it has read
GetArgsRet_clearing ==
    /\ pc = "L206"
    /\ SmcReturn(smc_fid, svc_ret, <<>>, <<>>)
    /\ pm_ctx' = [pm_ctx EXCEPT !.payload = ZeroBuf]
    /\ fetched' = IF preempts # 0 THEN <<>>
                  ELSE IF fetched = <<>> THEN <<svc_ret>>
                  ELSE <<fetched[Len(fetched)], svc_ret>>
    /\ UNCHANGED <<pm_down, setup, ipi_handler, pmu_version, ver_calls, call,
                   registered, last_buf, overwrote, preempts, ver_seen,
                   ver_ok>>

\* SMC_RET3(handle, svc_ret[0], svc_ret[1], svc_ret[2])
GetArgsRet ==
    /\ pc = "L206"
    /\ SmcReturn(smc_fid, svc_ret, <<>>, <<>>)
    /\ fetched' = IF preempts # 0 THEN <<>>
                  ELSE IF fetched = <<>> THEN <<svc_ret>>
                  ELSE <<fetched[Len(fetched)], svc_ret>>
    /\ UNCHANGED <<pm_down, pm_ctx, setup, ipi_handler, pmu_version, ver_calls,
                   call, registered, last_buf, overwrote, preempts, ver_seen,
                   ver_ok>>

\* the PM API cases that delegate and return (uint64_t)ret, with the extra
\* value in the high half for the two that report one; args are the indices
\* of pm_arg passed, in order
PmApi ==
    [id \in (2..20) |->
       CASE id = PM_SELF_SUSPEND -> [fn |-> "pm_self_suspend", args |-> <<1, 2, 3, 4>>, extra |-> FALSE]
         [] id = PM_REQ_SUSPEND -> [fn |-> "pm_req_suspend", args |-> <<1, 2, 3, 4>>, extra |-> FALSE]
         [] id = PM_REQ_WAKEUP -> [fn |-> "pm_req_wakeup", args |-> <<1, 2, 3, 4>>, extra |-> FALSE]
         [] id = PM_FORCE_POWERDOWN -> [fn |-> "pm_force_powerdown", args |-> <<1, 2>>, extra |-> FALSE]
         [] id = PM_ABORT_SUSPEND -> [fn |-> "pm_abort_suspend", args |-> <<1>>, extra |-> FALSE]
         [] id = PM_SET_WAKEUP_SOURCE -> [fn |-> "pm_set_wakeup_source", args |-> <<1, 2, 3>>, extra |-> FALSE]
         [] id = PM_SYSTEM_SHUTDOWN -> [fn |-> "pm_system_shutdown", args |-> <<1>>, extra |-> FALSE]
         [] id = PM_REQ_NODE -> [fn |-> "pm_req_node", args |-> <<1, 2, 3, 4>>, extra |-> FALSE]
         [] id = PM_RELEASE_NODE -> [fn |-> "pm_release_node", args |-> <<1>>, extra |-> FALSE]
         [] id = PM_SET_REQUIREMENT -> [fn |-> "pm_set_requirement", args |-> <<1, 2, 3, 4>>, extra |-> FALSE]
         [] id = PM_SET_MAX_LATENCY -> [fn |-> "pm_set_max_latency", args |-> <<1, 2>>, extra |-> FALSE]
         [] id = PM_SET_CONFIGURATION -> [fn |-> "pm_set_configuration", args |-> <<1>>, extra |-> FALSE]
         [] id = PM_GET_NODE_STATUS -> [fn |-> "pm_get_node_status", args |-> <<1>>, extra |-> FALSE]
         [] id = PM_GET_OP_CHARACTERISTIC -> [fn |-> "pm_get_op_characteristic", args |-> <<1, 2>>, extra |-> FALSE]
         [] id = PM_REGISTER_NOTIFIER -> [fn |-> "pm_register_notifier", args |-> <<1, 2, 3, 4>>, extra |-> FALSE]
         [] id = PM_RESET_ASSERT -> [fn |-> "pm_reset_assert", args |-> <<1, 2>>, extra |-> FALSE]
         [] id = PM_RESET_GET_STATUS -> [fn |-> "pm_reset_get_status", args |-> <<1>>, extra |-> TRUE]
         [] id = PM_MMIO_WRITE -> [fn |-> "pm_mmio_write", args |-> <<1, 2, 3>>, extra |-> FALSE]
         [] id = PM_MMIO_READ -> [fn |-> "pm_mmio_read", args |-> <<1>>, extra |-> TRUE]]

IsPmApi(cmd) == \E id \in DOMAIN PmApi : cmd = U32(id)
PmApiId(cmd) == CHOOSE id \in DOMAIN PmApi : cmd = U32(id)

\* mutant: a delegate that reports a failure is invoked a second time
PmApiResult_retry(id, arg, st, extra) ==
    LET inv == <<PmApi[id].fn,
                 [k \in 1..Len(PmApi[id].args) |-> arg[PmApi[id].args[k]]],
                 st,
                 IF PmApi[id].extra THEN <<extra>> ELSE <<>> >>
    IN [delegated |-> IF st = PM_RET_SUCCESS THEN <<inv>> ELSE <<inv, inv>>,
        ret |-> << IF PmApi[id].extra
                   THEN RetWord(U32(st), extra)
                   ELSE Zext64(U32(st)) >>]

\* st: the status the delegate returns; extra: what the out-parameter holds
\* after the call (written by the delegate, or left uninitialized).  The
\* invocation is recorded as <<function, arguments, status, <<out-parameter>> >>
PmApiResult(id, arg, st, extra) ==
    [delegated |-> << <<PmApi[id].fn,
                        [k \in 1..Len(PmApi[id].args) |-> arg[PmApi[id].args[k]]],
                        st,
                        IF PmApi[id].extra THEN <<extra>> ELSE <<>> >> >>,
     ret |-> << IF PmApi[id].extra
                THEN RetWord(U32(st), extra)
                ELSE Zext64(U32(st)) >>]

SmcPmApi(fid, x1, x2) ==
    /\ pc = "idle"
    /\ ~GateDown(pm_down)
    /\ IsPmApi(Cmd(fid))
    /\ \E st \in RetStatusSet, extra \in ExtraSet :
         LET r == PmApiResult(PmApiId(Cmd(fid)), PmArg(x1, x2), st, extra) IN
         SmcReturn(fid, r.ret, r.delegated, <<>>)
    /\ regs' = <<x1, x2>>
    /\ pm_arg' = PmArg(x1, x2)
    /\ UNCHANGED <<pm_down, pm_ctx, setup, ipi_handler, pmu_version, ver_calls,
                   hist>>

\* pm_get_api_version(&version): the status is the coprocessor's answer or a
\* transport error; the version is the coprocessor's, or the out-parameter is
\* left as it was when the request could not be sent
VersionOutcomes(cur, pmu) ==
    {[status |-> st, version |-> pmu] : st \in RetStatusSet}
      \cup {[status |-> PM_RET_ERROR_ARGS, version |-> cur]}

\* mutant: the cached version is compared with major and minor swapped
VersionVerified_swapped(ctx) == ctx.api_version = <<0, PM_VERSION>>

\* if (pm_ctx.api_version == PM_VERSION)
VersionVerified(ctx) == ctx.api_version = U32(PM_VERSION)

\* mutant: an answer from the cache invalidates the cache
ApiVersionResult_invalidate(ctx, out) ==
    IF VersionVerified(ctx)
    THEN [ctx |-> [ctx EXCEPT !.api_version = Zero32],
          delegated |-> <<>>,
          ret |-> <<RetWord(U32(PM_RET_SUCCESS), U32(PM_VERSION))>>]
    ELSE [ctx |-> [ctx EXCEPT !.api_version = out.version],
          delegated |-> << <<"pm_get_api_version", <<>> >> >>,
          ret |-> <<RetWord(U32(out.status), out.version)>>]

\* case PM_GET_API_VERSION; out: the outcome of the delegate, when called
ApiVersionResult(ctx, out) ==
    IF VersionVerified(ctx)
    THEN [ctx |-> ctx,
          delegated |-> <<>>,
          ret |-> <<RetWord(U32(PM_RET_SUCCESS), U32(PM_VERSION))>>]
    ELSE [ctx |-> [ctx EXCEPT !.api_version = out.version],
          delegated |-> << <<"pm_get_api_version", <<>> >> >>,
          ret |-> <<RetWord(U32(out.status), out.version)>>]

SmcGetApiVersion(fid, x1, x2) ==
    /\ pc = "idle"
    /\ ~GateDown(pm_down)
    /\ Cmd(fid) = U32(PM_GET_API_VERSION)
    /\ \E out \in VersionOutcomes(pm_ctx.api_version, pmu_version) :
         LET r == ApiVersionResult(pm_ctx, out) IN
         /\ r.delegated # <<>> => ver_calls < MaxVerCalls
         /\ pm_ctx' = r.ctx
         /\ ver_calls' = ver_calls + Len(r.delegated)
         /\ SmcReturn(fid, r.ret, r.delegated, <<>>)
         /\ ver_seen' = << <<r.ret[1][3], r.ret[1][4]>> >>
         /\ ver_ok' = (ver_ok \/ (r.delegated # <<>> /\ out.status = PM_RET_SUCCESS))
    /\ regs' = <<x1, x2>>
    /\ pm_arg' = PmArg(x1, x2)
    /\ UNCHANGED <<pm_down, setup, ipi_handler, pmu_version, registered,
                   last_buf, overwrote, preempts, fetched>>

\* default: SMC_RET1(handle, SMC_UNK)
IsKnownCmd(cmd) ==
    \/ cmd = U32(PM_F_INIT)
    \/ cmd = U32(PM_F_GETARGS)
    \/ cmd = U32(PM_GET_API_VERSION)
    \/ IsPmApi(cmd)

\* mutant: an unrecognized command closes the gate
SmcUnknown_closing(fid, x1, x2) ==
    /\ pc = "idle"
    /\ ~GateDown(pm_down)
    /\ ~IsKnownCmd(Cmd(fid))
    /\ SmcReturn(fid, <<Zext64(SMC_UNK)>>, <<>>, <<>>)
    /\ regs' = <<x1, x2>>
    /\ pm_arg' = PmArg(x1, x2)
    /\ pm_down' = 1
    /\ UNCHANGED <<pm_ctx, setup, ipi_handler, pmu_version, ver_calls, hist>>

SmcUnknown(fid, x1, x2) ==
    /\ pc = "idle"
    /\ ~GateDown(pm_down)
    /\ ~IsKnownCmd(Cmd(fid))
    /\ SmcReturn(fid, <<Zext64(SMC_UNK)>>, <<>>, <<>>)
    /\ regs' = <<x1, x2>>
    /\ pm_arg' = PmArg(x1, x2)
    /\ UNCHANGED <<pm_down, pm_ctx, setup, ipi_handler, pmu_version, ver_calls,
                   hist>>

\* one call of pm_smc_handler, up to its return or, for PM_F_GETARGS, up to
\* the first read of the payload
pm_smc_handler(fid, x1, x2) ==
    \/ SmcDown(fid, x1, x2)
    \/ SmcInit(fid, x1, x2)
    \/ SmcGetArgs(fid, x1, x2)
    \/ SmcPmApi(fid, x1, x2)
    \/ SmcGetApiVersion(fid, x1, x2)
    \/ SmcUnknown(fid, x1, x2)

SmcCall == \E c \in CallSet : pm_smc_handler(c.fid, c.x1, c.x2)

\* the handler has returned: the caller resumes with the result registers
SmcExit ==
    /\ pc = "exit"
    /\ pc' = "idle"
    /\ op' = "none"
    /\ smc_fid' = NoFid
    /\ ret' = <<>>
    /\ delegated' = <<>>
    /\ gic' = <<>>
    /\ relay_obs' = <<>>
    /\ preempts' = 0
    /\ regs' = <<>>
    /\ pm_arg' = <<>>
    /\ UNCHANGED <<pm_down, pm_ctx, setup, ipi_handler, pmu_version, svc_ret,
                   ver_calls, registered, last_buf, overwrote, fetched,
                   ver_seen,
                   ver_ok>>

Next ==
    \/ pm_setup
    \/ IpiSignal
    \/ SmcCall
    \/ GetArgsRead
    \/ GetArgsRet
    \/ SmcExit

Spec == Init /\ [][Next]_vars

(***************************************************************************)
(* The argument decomposition of lines 173-176 on its own: the registers   *)
(* are drawn from words whose limbs are all zeros, all ones, or have the   *)
(* top and the bottom bit set.                                             *)
(***************************************************************************)
CodecLimbs == {0, 32769, 65535}
CodecWords == {<<a, b, c, d>> : a \in CodecLimbs, b \in CodecLimbs,
                                 c \in CodecLimbs, d \in CodecLimbs}

CodecInit ==
    /\ InitService
    /\ regs \in CodecWords \X CodecWords
    /\ pm_arg = <<>>

\* pm_arg[0] = (uint32_t)x1; ... pm_arg[3] = (uint32_t)(x2 >> 32);
Decompose ==
    /\ pm_arg = <<>>
    /\ pm_arg' = PmArg(regs[1], regs[2])
    /\ UNCHANGED <<pm_down, pm_ctx, setup, ipi_handler, pmu_version, pc,
                   smc_fid, svc_ret, op, ret, delegated, gic, relay_obs,
                   ver_calls, regs, hist>>

CodecNext == Decompose

CodecSpec == CodecInit /\ [][CodecNext]_vars

(***************************************************************************)
(* Properties.                                                             *)
(***************************************************************************)
\* the three result words that hold the five words of a payload block p:
\* word0 = p[0] | p[1] << 32, word1 = p[2] | p[3] << 32, word2 = p[4]
PackPayload(p) ==
    << <<p[1][1], p[1][2], p[2][1], p[2][2]>>,
       <<p[3][1], p[3][2], p[4][1], p[4][2]>>,
       <<p[5][1], p[5][2], 0, 0>> >>

\* the state right after a call of the dispatcher with command id `id`
\* returned
Returned(id) ==
    /\ pc = "exit"
    /\ op = "pm_smc_handler"
    /\ smc_fid[1] = id

\* C1: while the gate is closed (pm_down nonzero) a call with any function
\* identifier and arguments returns the single word SMC_UNK, invokes no
\* delegated operation and no interrupt-controller primitive, and leaves
\* api_version, callback_irq and payload unchanged.  (A call of the
\* dispatcher is a step that takes it out of "idle".)
C1_GateClosed ==
    [][(pm_down # 0 /\ pc = "idle" /\ pc' # "idle")
         => /\ pc' = "exit"
            /\ ret' = << <<65535, 65535, 0, 0>> >>
            /\ delegated' = <<>>
            /\ gic' = <<>>
            /\ ver_calls' = ver_calls
            /\ pm_ctx' = pm_ctx]_vars

\* a call with a valid command id answered SMC_UNK after pm_ipi_init failed
C1_Witness ==
    /\ pm_down = -EINVAL
    /\ Returned(PM_F_INIT)
    /\ ret = << <<65535, 65535, 0, 0>> >>
    /\ pm_ctx.callback_irq = Zero32

\* C2: when no PM_F_INIT was ever dispatched, the relay stores the delivered
\* payload and marks no interrupt line pending or active.
C2_NoRaiseUnregistered ==
    (op = "ipi_fiq_handler" /\ registered = <<>>)
      => /\ pm_ctx.payload = last_buf
         /\ gic = <<>>

\* C3: with the relay preempting a PM_F_GETARGS call at any statement, the
\* three result words are the packing of one single payload: the all-zero
\* buffer or the block of one coprocessor signal.
C3_FetchNotTorn ==
    (pm_down = 0 /\ Returned(PM_F_GETARGS))
      => \E b \in BufSet \cup {ZeroBuf} : ret = PackPayload(b)

\* C4: with the gate open, a fetch that is not preempted returns
\* word0 = payload[0] | payload[1] << 32, word1 = payload[2] | payload[3] << 32,
\* word2 = payload[4], for every content of the buffer.
C4_FetchPacking ==
    (pm_down = 0 /\ Returned(PM_F_GETARGS) /\ preempts = 0)
      => ret = PackPayload(pm_ctx.payload)

\* the signal [1, 2, 3, 4, 5] followed by a fetch: 1 | 2 << 32, 3 | 4 << 32, 5
C4_Witness ==
    /\ pm_down = 0
    /\ Returned(PM_F_GETARGS)
    /\ preempts = 0
    /\ last_buf = << <<1, 0>>, <<2, 0>>, <<3, 0>>, <<4, 0>>, <<5, 0>> >>
    /\ ret = << <<1, 0, 2, 0>>, <<3, 0, 4, 0>>, <<5, 0, 0, 0>> >>

\* C5: the buffer is a single slot, last write wins: it always holds the block
\* of the most recent signal, and a fetch that follows the signals returns the
\* packing of that block only.
C5_LastWriteWins ==
    /\ pm_ctx.payload = last_buf
    /\ (pm_down = 0 /\ Returned(PM_F_GETARGS) /\ preempts = 0)
         => ret = PackPayload(last_buf)

\* two signals with no fetch between them, then a fetch that returns the second
C5_Witness ==
    /\ overwrote
    /\ pm_down = 0
    /\ Returned(PM_F_GETARGS)
    /\ preempts = 0
    /\ last_buf = Buf(2)
    /\ ret = PackPayload(Buf(2))

\* C6: a fetch is a read: no step of it (entry, reads, return) changes pm_ctx,
\* the gate or the delegate count, and two fetches with no signal from the
\* start of the first to the return of the second return the same three words.
C6_FetchIdempotent ==
    [][/\ (pc' # pc /\ (pc = "L206" \/ pc' \in {"L191", "L192", "L193", "L194", "L195", "L206"}))
          => UNCHANGED <<pm_ctx, pm_down, ver_calls>>
       /\ (pc = "L206" /\ pc' = "exit" /\ preempts = 0 /\ fetched # <<>>)
          => ret' = fetched[Len(fetched)]]_vars

\* a second fetch of a delivered block, equal to the first
C6_Witness ==
    /\ Returned(PM_F_GETARGS)
    /\ Len(fetched) = 2
    /\ fetched[1] = fetched[2]
    /\ ret = fetched[2]
    /\ last_buf # ZeroBuf

\* C7 as stated: after a PM_GET_API_VERSION call that returned the version
\* of the coprocessor, a further call returns the same version and does not
\* invoke pm_get_api_version, whatever version the coprocessor reports.
C7_SecondCallCached ==
    [][(pm_down = 0 /\ pc = "idle" /\ pc' = "exit"
          /\ smc_fid'[1] = PM_GET_API_VERSION /\ ver_seen = <<pmu_version>>)
         => /\ ver_calls' = ver_calls
            /\ <<ret'[1][3], ret'[1][4]>> = ver_seen[1]]_vars

\* C7 amended: after a PM_GET_API_VERSION call that returned version
\* PM_VERSION, a further call returns version PM_VERSION again and does not
\* invoke pm_get_api_version (its call count does not change).
C7_VerifiedVersionCached ==
    [][(pm_down = 0 /\ pc = "idle" /\ pc' = "exit"
          /\ smc_fid'[1] = PM_GET_API_VERSION /\ ver_seen = << <<2, 0>> >>)
         => /\ ver_calls' = ver_calls
            /\ delegated' = <<>>
            /\ <<ret'[1][3], ret'[1][4]>> = <<2, 0>>]_vars

\* the second call, answered from the cache after one delegate invocation
C7_Witness ==
    /\ pm_down = 0
    /\ Returned(PM_GET_API_VERSION)
    /\ ver_calls = 1
    /\ delegated = <<>>
    /\ ret = << <<0, 0, 2, 0>> >>

\* C8: after PM_F_INIT with line L1 and then with line L2 # L1, a signal marks
\* pending and active line L2 and no other line.
C8_OnlyLastLine ==
    (op = "ipi_fiq_handler" /\ Len(registered) = 2 /\ registered[1] # registered[2])
      => gic = << <<"gicd_set_ispendr", registered[2]>>,
                  <<"gicd_set_isactiver", registered[2]>> >>

\* lines 51 then 52 registered, and a signal forwarded on 52
C8_Witness ==
    /\ registered = << <<51, 0>>, <<52, 0>> >>
    /\ op = "ipi_fiq_handler"
    /\ gic = << <<"gicd_set_ispendr", <<52, 0>> >>,
                <<"gicd_set_isactiver", <<52, 0>> >> >>

\* C9: with the gate open, PM_F_INIT stores the low 32 bits of x1 as the line,
\* enables that line, returns the single word PM_RET_SUCCESS, and a repeated
\* call overwrites the stored line.  (registered ends with the low 32 bits of
\* the x1 of the call.)
C9_InitRegisters ==
    (pm_down = 0 /\ Returned(PM_F_INIT))
      => /\ registered # <<>>
         /\ pm_ctx.callback_irq = registered[Len(registered)]
         /\ gic = << <<"gicd_set_isenabler", registered[Len(registered)]>> >>
         /\ ret = << <<0, 0, 0, 0>> >>
         /\ delegated = <<>>

\* a repeated registration: 0xFFFFFFFF first, then x1 = 0x1_0000_0034
C9_Witness ==
    /\ pm_down = 0
    /\ Returned(PM_F_INIT)
    /\ registered = << <<65535, 65535>>, <<52, 0>> >>
    /\ pm_ctx.callback_irq = <<52, 0>>
    /\ ret = << <<0, 0, 0, 0>> >>

\* C10 as stated: PM_F_INIT with a line id the interrupt controller rejects
\* does not report success.
C10_InvalidLineFails ==
    (pm_down = 0 /\ Returned(PM_F_INIT) /\ registered # <<>>
       /\ GicdRejects(registered[Len(registered)]))
      => ret # << <<0, 0, 0, 0>> >>

\* C10 amended: PM_F_INIT with a line id the interrupt controller rejects
\* still stores the id as the line and returns PM_RET_SUCCESS: the rejection
\* is not surfaced to the caller.
C10_InvalidLineSucceeds ==
    (pm_down = 0 /\ Returned(PM_F_INIT) /\ registered # <<>>
       /\ GicdRejects(registered[Len(registered)]))
      => /\ ret = << <<0, 0, 0, 0>> >>
         /\ pm_ctx.callback_irq = registered[Len(registered)]

\* line id 0xFFFFFFFF registered with success
C10_Witness ==
    /\ pm_down = 0
    /\ Returned(PM_F_INIT)
    /\ pm_ctx.callback_irq = <<65535, 65535>>
    /\ GicdRejects(pm_ctx.callback_irq)
    /\ ret = << <<0, 0, 0, 0>> >>

\* the command ids the dispatcher has a case for: the two bookkeeping ids and
\* the enumerated power-management ids
HandledIds ==
    {PM_F_INIT, PM_F_GETARGS}
      \cup {PM_GET_API_VERSION, PM_SET_CONFIGURATION, PM_GET_NODE_STATUS,
            PM_GET_OP_CHARACTERISTIC, PM_REGISTER_NOTIFIER, PM_REQ_SUSPEND,
            PM_SELF_SUSPEND, PM_FORCE_POWERDOWN, PM_ABORT_SUSPEND,
            PM_REQ_WAKEUP, PM_SET_WAKEUP_SOURCE, PM_SYSTEM_SHUTDOWN,
            PM_REQ_NODE, PM_RELEASE_NODE, PM_SET_REQUIREMENT,
            PM_SET_MAX_LATENCY, PM_RESET_ASSERT, PM_RESET_GET_STATUS,
            PM_MMIO_WRITE, PM_MMIO_READ}

\* C11: with the gate open, a call whose masked command id (the low 16 bits
\* of the function identifier) is neither PM_F_INIT, PM_F_GETARGS nor an
\* enumerated power-management id returns the single word SMC_UNK, invokes no
\* delegated operation and no interrupt-controller primitive, and leaves
\* api_version, callback_irq and payload unchanged.
C11_UnknownCommand ==
    [][(pm_down = 0 /\ pc = "idle" /\ pc' # "idle" /\ smc_fid'[1] \notin HandledIds)
         => /\ pc' = "exit"
            /\ ret' = << <<65535, 65535, 0, 0>> >>
            /\ delegated' = <<>>
            /\ gic' = <<>>
            /\ ver_calls' = ver_calls
            /\ pm_ctx' = pm_ctx]_vars

\* command id 0xa03 under the calling-convention bits 0xC200, rejected after
\* a line was registered and a block delivered
C11_Witness ==
    /\ pm_down = 0
    /\ Returned(2563)
    /\ smc_fid = <<2563, 49664>>
    /\ ret = << <<65535, 65535, 0, 0>> >>
    /\ delegated = <<>>
    /\ pm_ctx.callback_irq = <<52, 0>>
    /\ pm_ctx.payload = Buf(1)

\* C12: the gate starts closed (pm_down = !0 until pm_setup() is called);
\* once pm_setup() has returned the gate is open exactly if it returned 0, no
\* call of the dispatcher and no coprocessor signal changes pm_down, and
\* after a failed setup every call returns the single word SMC_UNK.
C12_GateFixedAfterSetup ==
    [][/\ ~setup.called => pm_down = 1
       /\ setup.called =>
            /\ pm_down' = pm_down
            /\ (pm_down = 0) <=> (setup.status = 0)
            /\ (setup.status # 0 /\ pc = "idle" /\ pc' # "idle")
                 => (pc' = "exit" /\ ret' = << <<65535, 65535, 0, 0>> >>)]_vars

\* the gate still open after two registrations, two signals and a rejected
\* command
C12_Witness ==
    /\ setup.called
    /\ setup.status = 0
    /\ pm_down = 0
    /\ Len(registered) = 2
    /\ overwrote
    /\ Returned(0)
    /\ ret = << <<65535, 65535, 0, 0>> >>

\* C13: pm_setup() opens the gate if and only if the coprocessor is live and
\* pm_ipi_init returns 0.  When the coprocessor is not live it returns -ENODEV,
\* pm_ipi_init is not called (the relay is not registered) and the gate stays
\* closed; when pm_ipi_init returns a nonzero code, pm_setup returns that code
\* and the gate stays closed.
C13_SetupOpensGate ==
    setup.called =>
      /\ (pm_down = 0) <=> (setup.up /\ setup.ipi_ret = <<0>>)
      /\ ~setup.up => /\ setup.status = -19
                      /\ setup.ipi_ret = <<>>
                      /\ ipi_handler = "none"
                      /\ pm_down # 0
      /\ setup.up => /\ Len(setup.ipi_ret) = 1
                     /\ setup.status = setup.ipi_ret[1]
                     /\ (setup.ipi_ret[1] # 0 => pm_down # 0)

\* the coprocessor was live and pm_ipi_init failed with -EINVAL
C13_Witness ==
    /\ op = "pm_setup"
    /\ setup.called
    /\ setup.up
    /\ setup.ipi_ret = <<-22>>
    /\ setup.status = -22
    /\ pm_down # 0

\* C14: for every pair of registers (x1, x2), pm_arg[0] is the low and
\* pm_arg[1] the high 32 bits of x1, pm_arg[2] the low and pm_arg[3] the high
\* 32 bits of x2, and pm_arg[0] | pm_arg[1] << 32 and pm_arg[2] | pm_arg[3] << 32
\* are x1 and x2 again.
C14_ArgRoundTrip ==
    pm_arg # <<>> =>
      /\ pm_arg = << <<regs[1][1], regs[1][2]>>, <<regs[1][3], regs[1][4]>>,
                     <<regs[2][1], regs[2][2]>>, <<regs[2][3], regs[2][4]>> >>
      /\ Or64(Zext64(pm_arg[1]), Shl32(Zext64(pm_arg[2]))) = regs[1]
      /\ Or64(Zext64(pm_arg[3]), Shl32(Zext64(pm_arg[4]))) = regs[2]

\* x1 = 0x8001_0000_FFFF_8001 and x2 = 0x0000_FFFF_8001_0000 decomposed
C14_Witness ==
    /\ regs = << <<32769, 65535, 0, 32769>>, <<0, 32769, 65535, 0>> >>
    /\ pm_arg = << <<32769, 65535>>, <<0, 32769>>, <<0, 32769>>, <<65535, 0>> >>

\* the delegated operation each enumerated power-management id names
DelegateOf ==
    [id \in 2..20 |->
       <<"pm_set_configuration", "pm_get_node_status",
         "pm_get_op_characteristic", "pm_register_notifier", "pm_req_suspend",
         "pm_self_suspend", "pm_force_powerdown", "pm_abort_suspend",
         "pm_req_wakeup", "pm_set_wakeup_source", "pm_system_shutdown",
         "pm_req_node", "pm_release_node", "pm_set_requirement",
         "pm_set_max_latency", "pm_reset_assert", "pm_reset_get_status",
         "pm_mmio_write", "pm_mmio_read">>[id - 1]]

\* C15: with the gate open, a call whose command id is one of the enumerated
\* power-management ids invokes exactly one delegated operation, the one the
\* id names, exactly once, and returns one word: its low 32 bits are the
\* status the delegate returned, its high 32 bits are zero, except for
\* pm_reset_get_status and pm_mmio_read where they are the value of the
\* delegate's out-parameter.
C15_DelegatesOnce ==
    (pm_down = 0 /\ pc = "exit" /\ op = "pm_smc_handler" /\ smc_fid[1] \in 2..20)
      => /\ Len(delegated) = 1
         /\ delegated[1][1] = DelegateOf[smc_fid[1]]
         /\ Len(ret) = 1
         /\ <<ret[1][1], ret[1][2]>> = <<delegated[1][3], 0>>
         /\ <<ret[1][3], ret[1][4]>> =
              IF smc_fid[1] \in {PM_RESET_GET_STATUS, PM_MMIO_READ}
              THEN delegated[1][4][1]
              ELSE <<0, 0>>

\* pm_mmio_read failed with status 1 and value 0xABCD1234 in the out-parameter
C15_Witness ==
    /\ pm_down = 0
    /\ Returned(PM_MMIO_READ)
    /\ Len(delegated) = 1
    /\ delegated[1][1] = "pm_mmio_read"
    /\ delegated[1][2] = << <<52, 0>> >>
    /\ ret = << <<1, 0, 4660, 43981>> >>

\* C16: single-writer discipline.  A run of the relay (a step that is neither
\* pm_setup nor a step of the dispatcher, which always moves pc) changes
\* neither callback_irq nor api_version nor the gate; no step of the
\* dispatcher changes payload; a dispatcher step that changes callback_irq is
\* a PM_F_INIT call and one that changes api_version is a PM_GET_API_VERSION
\* call.
C16_SingleWriter ==
    [][/\ (pc' = pc /\ setup' = setup)
          => /\ pm_ctx'.callback_irq = pm_ctx.callback_irq
             /\ pm_ctx'.api_version = pm_ctx.api_version
             /\ pm_down' = pm_down
       /\ (pc' # pc)
          => /\ pm_ctx'.payload = pm_ctx.payload
             /\ (pm_ctx'.callback_irq # pm_ctx.callback_irq)
                  => (pc = "idle" /\ smc_fid'[1] = PM_F_INIT)
             /\ (pm_ctx'.api_version # pm_ctx.api_version)
                  => (pc = "idle" /\ smc_fid'[1] = PM_GET_API_VERSION)]_vars

\* each field written by its writer: the version by PM_GET_API_VERSION, the
\* line by PM_F_INIT, and then the payload by the relay
C16_Witness ==
    /\ op = "ipi_fiq_handler"
    /\ pm_down = 0
    /\ pm_ctx.api_version = <<0, 1>>
    /\ pm_ctx.callback_irq = <<51, 0>>
    /\ pm_ctx.payload = Buf(2)

\* C17: on every signal the relay overwrites the whole buffer first, then
\* marks the line pending, then active: after each statement of the relay,
\* whenever a mark of this signal is in place the buffer holds the block of
\* this signal, the marks are a prefix of <<pending, active>> on the stored
\* line, and the relay ends with the buffer holding that block and both
\* marks.
C17_PayloadBeforeNotify ==
    op = "ipi_fiq_handler" =>
      /\ Len(relay_obs) = 3
      /\ \A i \in 1..3 :
            /\ relay_obs[i].gic # <<>> => relay_obs[i].payload = last_buf
            /\ relay_obs[i].gic
                 \in {<<>>,
                      << <<"gicd_set_ispendr", pm_ctx.callback_irq>> >>,
                      << <<"gicd_set_ispendr", pm_ctx.callback_irq>>,
                         <<"gicd_set_isactiver", pm_ctx.callback_irq>> >>}
      /\ relay_obs[3] = [payload |-> last_buf, gic |-> gic]
      /\ Len(gic) = 2
      /\ pm_ctx.payload = last_buf

\* block 2 delivered over block 1 and notified on line 52: the buffer held
\* block 2 before the line was marked pending
C17_Witness ==
    /\ op = "ipi_fiq_handler"
    /\ overwrote
    /\ last_buf = Buf(2)
    /\ pm_ctx.callback_irq = <<52, 0>>
    /\ relay_obs[1] = [payload |-> Buf(2), gic |-> <<>>]
    /\ relay_obs[2] = [payload |-> Buf(2),
                       gic |-> << <<"gicd_set_ispendr", <<52, 0>> >> >>]

\* C18: once api_version equals PM_VERSION it never changes again,
\* pm_get_api_version is never invoked again, and every PM_GET_API_VERSION
\* call returns PM_RET_SUCCESS | PM_VERSION << 32, whatever commands and
\* signals come in between.
C18_VerifiedForever ==
    [][pm_ctx.api_version = <<2, 0>>
         => /\ pm_ctx'.api_version = <<2, 0>>
            /\ ver_calls' = ver_calls
            /\ (pc = "idle" /\ pc' # "idle" /\ smc_fid'[1] = PM_GET_API_VERSION)
                 => /\ pc' = "exit"
                    /\ ret' = << <<0, 0, 2, 0>> >>
                    /\ delegated' = <<>>]_vars

\* a call answered from the cache after two registrations and two signals
C18_Witness ==
    /\ Returned(PM_GET_API_VERSION)
    /\ pm_ctx.api_version = <<2, 0>>
    /\ ver_calls = 1
    /\ delegated = <<>>
    /\ ret = << <<0, 0, 2, 0>> >>
    /\ Len(registered) = 2
    /\ overwrote

\* C19: a PM_GET_API_VERSION call returns the status PM_RET_SUCCESS only if
\* some invocation of pm_get_api_version, in this call or an earlier one,
\* returned PM_RET_SUCCESS: a failed query that reported PM_VERSION does not
\* make a later call report success.
C19_SuccessNeedsQuery ==
    (pm_down = 0 /\ Returned(PM_GET_API_VERSION)
       /\ <<ret[1][1], ret[1][2]>> = <<0, 0>>)
      => ver_ok

====
